---- MODULE Spec2Model ----
(***************************************************************************)
(* Model of docker/imagenie/main.py: discovery of container names from the *)
(* registry (get_container_names), the retried download of the Trivy       *)
(* vulnerability database, and the per-container pull / scan / build /     *)
(* upload / cleanup loop of process_containers.                            *)
(*                                                                         *)
(* External collaborators (registry, skopeo, trivy, singularity, the       *)
(* bucket) are the environment: every blocking call is one action whose    *)
(* result is chosen nondeterministically from what the tool can return.    *)
(* `rm -f` on files the process itself created is taken to succeed.        *)
(***************************************************************************)
EXTENDS Integers, Sequences, FiniteSets, TLC

\* ---------------------------------------------------------------- bounds
Names == {"alpha", "beta"}      \* repository names the registry may list
MaxNames == 2                   \* most names the registry lists in total
MaxPage == 2                    \* last page number that may be non-empty
MaxPageLen == 2                 \* most entries on one listing page

\* ------------------------------------------------------------- constants
org == "ghtrecontainers"
HTTP_OK == 200
StatusCodes == {HTTP_OK, 500}   \* what the listing endpoint may answer

\* range(5) of the download loop, and the `attempt < 4` sleep test
\* variant: one iteration too many (range(6))
AttemptRangeMutant == 0 .. 5
AttemptRange == 0 .. 4
\* variant: the sleep test lets the last attempt sleep too
LastAttemptMutant == 4 + 1
LastAttempt == 4

\* --------------------------------------------------------------- strings
\* Text that is searched is a sequence of characters.
CRITICAL == <<"C", "R", "I", "T", "I", "C", "A", "L">>

\* Python's `sub in s` on strings
Contains(sub, s) ==
    \E k \in 0 .. (Len(s) - Len(sub)) : SubSeq(s, k + 1, k + Len(sub)) = sub

\* line 70: "CRITICAL" in scan_result.stdout
\* variant: equality instead of substring search
HasCriticalMutant(stdout) == stdout = CRITICAL
HasCritical(stdout) == Contains(CRITICAL, stdout)

\* f-strings of lines 53, 81, 85, kept as their parts
\* variant: one fixed staging file for every container
StagingPathFixed(container_name) == <<"/tmp/", "image", ".tar">>
StagingPath(container_name) == <<"/tmp/", container_name, ".tar">>
SifFile(container_name) == <<"/tmp/", container_name, ".sif">>
DestinationBlob(container_name) == <<"containers/", container_name, ".sif">>

\* ----------------------------------------------------------- environment
\* Sequences over S of length lo..hi
SeqsUpTo(S, lo, hi) == UNION {[1 .. n -> S] : n \in lo .. hi}

\* A listing page: entries each exposing a name
Repositories(maxlen) == SeqsUpTo([name : Names], 0, maxlen)

\* What the registry may answer to the request for page p when `have`
\* names were already listed.
Responses(p, have) ==
    LET room == IF p > MaxPage THEN 0
                ELSE IF MaxNames - have < MaxPageLen THEN MaxNames - have
                ELSE MaxPageLen
    IN  {[status_code |-> c, results |-> <<>>] : c \in StatusCodes \ {HTTP_OK}}
          \cup {[status_code |-> HTTP_OK, results |-> r] : r \in Repositories(room)}

\* What trivy prints on stdout
ScanStdouts ==
    { <<>>,
      <<"o", "k">>,
      <<"c", "r", "i", "t", "i", "c", "a", "l">>,
      CRITICAL,
      <<"x">> \o CRITICAL \o <<"y">> }

\* Results of the scan: without a staged image trivy cannot run; a run that
\* fails produces no report.
ScanResults(staged) ==
    {[returncode |-> 1, stdout |-> <<>>]}
      \cup (IF staged THEN {[returncode |-> 0, stdout |-> s] : s \in ScanStdouts}
            ELSE {})

NoResult == [returncode |-> -1, stdout |-> <<>>]

\* ----------------------------------------------------------------- state
VARIABLES
    pc,               \* position in process_containers
    page,             \* get_container_names: page
    container_names,  \* get_container_names: container_names / the list returned
    responses,        \* log of listing requests and their answers
    attempt,          \* loop variable of the download loop
    download_log,     \* return codes of the database downloads so far
    sleeps,           \* number of time.sleep(5) calls
    idx,              \* number of loop iterations started (1-based task index)
    files,            \* paths that exist under /tmp
    scan_result,      \* scan_result of the current iteration
    bucket,           \* blobs present in the production bucket
    trace,            \* log of external calls made for containers
    exit_status       \* process exit status, -1 while running

vars == <<pc, page, container_names, responses, attempt, download_log, sleeps,
          idx, files, scan_result, bucket, trace, exit_status>>

discoveryVars == <<page, container_names, responses>>
downloadVars == <<attempt, download_log, sleeps>>

Event(op, arg, rc, out) ==
    [task |-> idx, op |-> op, arg |-> arg, rc |-> rc, out |-> out]

container_name == container_names[idx]

Init ==
    /\ pc = "get"
    /\ page = 1
    /\ container_names = <<>>
    /\ responses = <<>>
    /\ attempt = 0
    /\ download_log = <<>>
    /\ sleeps = 0
    /\ idx = 0
    /\ files = {}
    /\ scan_result = NoResult
    /\ bucket = {}
    /\ trace = <<>>
    /\ exit_status = -1

\* --------------------------------------------------------------- actions
\* variant: names of a page are put in front of the accumulated list
GetPagePrepends ==
    /\ pc = "get"
    /\ \E response \in Responses(page, Len(container_names)) :
         /\ responses' = Append(responses, [page |-> page,
                                            status_code |-> response.status_code,
                                            results |-> response.results])
         /\ IF response.status_code # HTTP_OK \/ response.results = <<>>
            THEN /\ pc' = "download"
                 /\ UNCHANGED <<page, container_names>>
            ELSE /\ container_names' =
                        [k \in 1 .. Len(response.results) |-> response.results[k].name]
                        \o container_names
                 /\ page' = page + 1
                 /\ pc' = "get"
    /\ UNCHANGED <<downloadVars, idx, files, scan_result, bucket, trace, exit_status>>

\* variant: a non-success status raises (as raise_for_status would)
GetPageRaises ==
    /\ pc = "get"
    /\ \E response \in Responses(page, Len(container_names)) :
         /\ responses' = Append(responses, [page |-> page,
                                            status_code |-> response.status_code,
                                            results |-> response.results])
         /\ IF response.status_code # HTTP_OK
            THEN /\ pc' = "crashed"
                 /\ exit_status' = 1
                 /\ UNCHANGED <<page, container_names>>
            ELSE IF response.results = <<>>
            THEN /\ pc' = "download"
                 /\ UNCHANGED <<page, container_names, exit_status>>
            ELSE /\ container_names' = container_names
                        \o [k \in 1 .. Len(response.results) |-> response.results[k].name]
                 /\ page' = page + 1
                 /\ pc' = "get"
                 /\ UNCHANGED exit_status
    /\ UNCHANGED <<downloadVars, idx, files, scan_result, bucket, trace>>

\* variant: an empty page does not end the listing
GetPageIgnoresEmpty ==
    /\ pc = "get"
    /\ \E response \in Responses(page, Len(container_names)) :
         /\ responses' = Append(responses, [page |-> page,
                                            status_code |-> response.status_code,
                                            results |-> response.results])
         /\ IF response.status_code # HTTP_OK
            THEN /\ pc' = "download"
                 /\ UNCHANGED <<page, container_names>>
            ELSE /\ container_names' = container_names
                        \o [k \in 1 .. Len(response.results) |-> response.results[k].name]
                 /\ page' = page + 1
                 /\ pc' = "get"
    /\ UNCHANGED <<downloadVars, idx, files, scan_result, bucket, trace, exit_status>>

\* One iteration of `while True` in get_container_names (lines 13-24)
GetPage ==
    /\ pc = "get"
    /\ \E response \in Responses(page, Len(container_names)) :
         /\ responses' = Append(responses, [page |-> page,
                                            status_code |-> response.status_code,
                                            results |-> response.results])
         /\ IF response.status_code # HTTP_OK \/ response.results = <<>>
            THEN /\ pc' = "download"
                 /\ UNCHANGED <<page, container_names>>
            ELSE /\ container_names' = container_names
                        \o [k \in 1 .. Len(response.results) |-> response.results[k].name]
                 /\ page' = page + 1
                 /\ pc' = "get"
    /\ UNCHANGED <<downloadVars, idx, files, scan_result, bucket, trace, exit_status>>

\* One iteration of `for attempt in range(5)` (lines 35-46)
DownloadDb ==
    /\ pc = "download"
    /\ \E returncode \in {0, 1} :
         /\ download_log' = Append(download_log, returncode)
         /\ IF returncode = 0
            THEN /\ pc' = "for"
                 /\ UNCHANGED <<attempt, sleeps>>
            ELSE /\ sleeps' = IF attempt < LastAttempt THEN sleeps + 1 ELSE sleeps
                 /\ IF attempt + 1 \in AttemptRange
                    THEN attempt' = attempt + 1 /\ pc' = "download"
                    ELSE attempt' = attempt /\ pc' = "exhausted"
    /\ UNCHANGED <<discoveryVars, idx, files, scan_result, bucket, trace, exit_status>>

\* variant: the else branch only prints and falls through to the loop
DownloadExhaustedMutant ==
    /\ pc = "exhausted"
    /\ pc' = "for"
    /\ UNCHANGED <<discoveryVars, downloadVars, idx, files, scan_result, bucket,
                   trace, exit_status>>

\* The else branch of the download loop (lines 47-49): `sys` is not imported,
\* so sys.exit(1) raises NameError; uncaught, it ends the process with status 1.
DownloadExhausted ==
    /\ pc = "exhausted"
    /\ pc' = "crashed"
    /\ exit_status' = 1
    /\ UNCHANGED <<discoveryVars, downloadVars, idx, files, scan_result, bucket, trace>>

\* variant: the loop header skips a container
ForNextSkips ==
    /\ pc = "for"
    /\ IF idx + 1 < Len(container_names)
       THEN idx' = idx + 2 /\ pc' = "pull" /\ UNCHANGED exit_status
       ELSE idx' = idx /\ pc' = "done" /\ exit_status' = 0
    /\ UNCHANGED <<discoveryVars, downloadVars, files, scan_result, bucket, trace>>

\* Header of `for container_name in container_names` (line 51) and the
\* return of line 95
ForNext ==
    /\ pc = "for"
    /\ IF idx < Len(container_names)
       THEN idx' = idx + 1 /\ pc' = "pull" /\ UNCHANGED exit_status
       ELSE idx' = idx /\ pc' = "done" /\ exit_status' = 0
    /\ UNCHANGED <<discoveryVars, downloadVars, files, scan_result, bucket, trace>>

\* skopeo copy (line 56): the result is not looked at
Pull ==
    /\ pc = "pull"
    /\ \E returncode \in {0, 1} :
         /\ files' = IF returncode = 0
                     THEN files \cup {StagingPath(container_name)} ELSE files
         /\ trace' = Append(trace, Event("pull", StagingPath(container_name),
                                         returncode, <<>>))
    /\ pc' = "scan"
    /\ UNCHANGED <<discoveryVars, downloadVars, idx, scan_result, bucket, exit_status>>

\* trivy image (lines 59-67)
Scan ==
    /\ pc = "scan"
    /\ \E result \in ScanResults(StagingPath(container_name) \in files) :
         /\ scan_result' = result
         /\ trace' = Append(trace, Event("scan", StagingPath(container_name),
                                         result.returncode, result.stdout))
    /\ pc' = "check"
    /\ UNCHANGED <<discoveryVars, downloadVars, idx, files, bucket, exit_status>>

\* The test of line 70 and the skip branch (lines 71-77)
Check ==
    /\ pc = "check"
    /\ IF HasCritical(scan_result.stdout)
       THEN /\ files' = files \ {StagingPath(container_name)}
            /\ trace' = Append(trace, Event("rm", StagingPath(container_name), 0, <<>>))
            /\ pc' = "for"
       ELSE /\ pc' = "build"
            /\ UNCHANGED <<files, trace>>
    /\ UNCHANGED <<discoveryVars, downloadVars, idx, scan_result, bucket, exit_status>>

\* singularity build (lines 81-82): needs the staged image; result not looked at
Build ==
    /\ pc = "build"
    /\ \E returncode \in {0, 1} :
         /\ returncode = 0 => StagingPath(container_name) \in files
         /\ files' = IF returncode = 0
                     THEN files \cup {SifFile(container_name)} ELSE files
         /\ trace' = Append(trace, Event("build", SifFile(container_name),
                                         returncode, <<>>))
    /\ pc' = "upload"
    /\ UNCHANGED <<discoveryVars, downloadVars, idx, scan_result, bucket, exit_status>>

\* upload_from_filename (lines 85-87): raises when the file is missing or the
\* transfer fails; the exception is not caught and ends the process.
Upload ==
    /\ pc = "upload"
    /\ \E returncode \in {0, 1} :
         /\ returncode = 0 => SifFile(container_name) \in files
         /\ trace' = Append(trace, Event("upload", DestinationBlob(container_name),
                                         returncode, <<>>))
         /\ IF returncode = 0
            THEN /\ bucket' = bucket \cup {DestinationBlob(container_name)}
                 /\ pc' = "cleanup"
                 /\ UNCHANGED exit_status
            ELSE /\ pc' = "crashed"
                 /\ exit_status' = 1
                 /\ UNCHANGED bucket
    /\ UNCHANGED <<discoveryVars, downloadVars, idx, files, scan_result>>

\* rm -f sif_file staging_path (lines 90-94)
Cleanup ==
    /\ pc = "cleanup"
    /\ files' = files \ {SifFile(container_name), StagingPath(container_name)}
    /\ trace' = Append(trace, Event("rm", StagingPath(container_name), 0, <<>>))
    /\ pc' = "for"
    /\ UNCHANGED <<discoveryVars, downloadVars, idx, scan_result, bucket, exit_status>>

Next ==
    \/ GetPage
    \/ DownloadDb
    \/ DownloadExhausted
    \/ ForNext
    \/ Pull
    \/ Scan
    \/ Check
    \/ Build
    \/ Upload
    \/ Cleanup

Spec == Init /\ [][Next]_vars

\* Exit statuses of a process ended by SIGINT (uncaught KeyboardInterrupt)
\* or SIGTERM
SignalStatuses == {130, 143}

\* An external cancellation signal.  The program installs no handler and has
\* no try/finally, so the process ends where it stands.
Cancel ==
    /\ pc \notin {"done", "crashed", "cancelled"}
    /\ pc' = "cancelled"
    /\ exit_status' \in SignalStatuses
    /\ UNCHANGED <<discoveryVars, downloadVars, idx, files, scan_result, bucket, trace>>

NextCancel ==
    \/ Next
    \/ Cancel

\* Runs in which a cancellation signal may arrive
SpecCancel == Init /\ [][NextCancel]_vars

\* ------------------------------------------------------- claim vocabulary
Tasks == 1 .. Len(container_names)

\* Positions in the log of the calls of kind op made for task i
Events(i, op) == {k \in DOMAIN trace : trace[k].task = i /\ trace[k].op = op}
Called(i, op) == Events(i, op) # {}

RunEnded == pc \in {"done", "crashed"}
Prepared == download_log # <<>> /\ download_log[Len(download_log)] = 0
AllFailed == Len(download_log) = 5 /\ \A k \in DOMAIN download_log : download_log[k] # 0

\* Task i has reached a terminal state
TaskEnded(i) == i < idx \/ (i = idx /\ pc \in {"for", "done", "crashed"})

MarkerInScan(i) == \E k \in Events(i, "scan") : Contains(CRITICAL, trace[k].out)
NoMarkerInScan(i) == \E k \in Events(i, "scan") : ~Contains(CRITICAL, trace[k].out)

\* ---------------------------------------------------------------- claims
\* C1: once database preparation has succeeded, every discovered container
\* is attempted (pulled and scanned) by the time the run ends, whatever the
\* outcomes of the steps of earlier tasks.
C1_FailureIsolation ==
    (RunEnded /\ Prepared) =>
        \A i \in Tasks : Called(i, "pull") /\ Called(i, "scan")

\* C2: whenever a task has reached a terminal state, and in particular when
\* the run has ended, neither its staging file nor its artifact exists.
C2_UnconditionalCleanup ==
    (idx >= 1 /\ TaskEnded(idx)) =>
        /\ StagingPath(container_names[idx]) \notin files
        /\ SifFile(container_names[idx]) \notin files

\* C3: a task is uploaded only if its scan ran and reported no critical
\* finding (return code 0 and no marker in the report).
C3_UploadedOnlyIfClean ==
    \A i \in Tasks :
        (\E u \in Events(i, "upload") : trace[u].rc = 0) =>
            \E k \in Events(i, "scan") :
                trace[k].rc = 0 /\ ~Contains(CRITICAL, trace[k].out)

\* C4: when the scanner fails to execute for a task, no conversion and no
\* upload is invoked for that task.
C4_ScanErrorNeverProceeds ==
    \A i \in Tasks :
        (\E k \in Events(i, "scan") : trace[k].rc # 0) =>
            ~Called(i, "build") /\ ~Called(i, "upload")

\* C5: when all 5 database downloads have failed the run never processes a
\* container (no pull, scan, build, upload or rm call) and its exit status
\* is never 0; once it has ended the status is non-zero.
C5_PreparationFailureAborts ==
    AllFailed =>
        /\ pc \in {"exhausted", "crashed"}
        /\ exit_status # 0
        /\ (pc = "crashed" => exit_status = 1)
        /\ trace = <<>> /\ idx = 0 /\ files = {} /\ bucket = {}

C5_Witness ==
    AllFailed /\ pc = "crashed" /\ exit_status = 1 /\ Len(container_names) >= 2

\* C6: the database download is run at most 5 times; only the last run so
\* far can have succeeded (so the first success at attempt k means exactly k
\* runs, and none after it), and the container loop is entered exactly when
\* the last run succeeded.
C6_PreparationAtMostFive ==
    /\ Len(download_log) <= 5
    /\ \A k \in 1 .. (Len(download_log) - 1) : download_log[k] # 0
    /\ Prepared <=> pc \in {"for", "pull", "scan", "check", "build", "upload",
                            "cleanup", "done"}
                     \/ (pc = "crashed" /\ ~AllFailed)

C6_Witness ==
    /\ Len(download_log) = 5 /\ download_log[5] = 0
    /\ pc = "done" /\ exit_status = 0
    /\ \E i \in Tasks : \E u \in Events(i, "upload") : trace[u].rc = 0

\* C7: for a task whose scan output contains the marker CRITICAL, no build
\* and no upload call is made, and when the task ends neither its staging
\* file nor its artifact exists.
C7_CriticalSkipped ==
    \A i \in 1 .. idx :
        MarkerInScan(i) =>
            /\ ~Called(i, "build") /\ ~Called(i, "upload")
            /\ (i = idx /\ pc \in {"for", "done", "crashed"}) =>
                   /\ StagingPath(container_names[i]) \notin files
                   /\ SifFile(container_names[i]) \notin files

C7_Witness ==
    /\ pc = "for" /\ idx >= 1
    /\ \E k \in Events(idx, "scan") : trace[k].out = <<"x">> \o CRITICAL \o <<"y">>
    /\ \E k \in Events(idx, "pull") : trace[k].rc = 0
    /\ Called(idx, "rm")
    /\ files = {}

\* C8: for a task whose scan output does not contain the marker, build is
\* called, then upload is called with key containers/<name>.sif, and once
\* the task has ended (upload succeeded or failed) neither file exists.
C8_NoMarkerConvertsUploadsCleans ==
    \A i \in 1 .. idx :
        (NoMarkerInScan(i) /\ TaskEnded(i)) =>
            /\ \E b \in Events(i, "build") : \E u \in Events(i, "upload") :
                   /\ b < u
                   /\ trace[u].arg = <<"containers/", container_names[i], ".sif">>
            /\ i = idx =>
                   /\ <<"/tmp/", container_names[i], ".tar">> \notin files
                   /\ <<"/tmp/", container_names[i], ".sif">> \notin files

\* C9: when the pull of a container fails, no build and no upload is
\* attempted for that task.
C9_PullFailureIsTaskFailure ==
    \A i \in Tasks :
        (\E k \in Events(i, "pull") : trace[k].rc # 0) =>
            ~Called(i, "build") /\ ~Called(i, "upload")

\* C10: if the build of a task fails, no upload call is made for that task.
C10_UploadOnlyIfConverted ==
    \A i \in Tasks :
        (\E k \in Events(i, "build") : trace[k].rc # 0) => ~Called(i, "upload")

\* C11: when the run has ended its exit status is 0 exactly when database
\* preparation succeeded, whatever the outcomes of the tasks.
C11_ExitStatus ==
    RunEnded => (exit_status = 0 <=> Prepared)

\* Names of the listing pages 1..n of the log, in page order
RECURSIVE PageNames(_)
PageNames(n) ==
    IF n = 0 THEN <<>>
    ELSE PageNames(n - 1)
           \o [k \in 1 .. Len(responses[n].results) |-> responses[n].results[k].name]

NonEmptyPage(k) ==
    responses[k].status_code = 200 /\ responses[k].results # <<>>
DiscoveryReturned == pc # "get"
LastResponse == responses[Len(responses)]

\* C12: for non-empty pages P1..Pn followed by an empty page, the list
\* returned is the concatenation of the names of P1..Pn in page order, and
\* pages 1..n+1 were requested, each once, in that order.
C12_ConcatenatesPages ==
    (/\ DiscoveryReturned
     /\ LastResponse.status_code = 200 /\ LastResponse.results = <<>>
     /\ \A k \in 1 .. (Len(responses) - 1) : NonEmptyPage(k)) =>
        /\ container_names = PageNames(Len(responses) - 1)
        /\ \A k \in DOMAIN responses : responses[k].page = k

C12_Witness ==
    /\ DiscoveryReturned
    /\ Len(responses) = 3
    /\ LastResponse.status_code = 200 /\ LastResponse.results = <<>>
    /\ container_names = <<"alpha", "beta">>

\* C13: if page k answers with a non-success status, the list returned is
\* the names of pages 1..k-1, page k is the last one requested, and the run
\* goes on to the database download instead of failing.
C13_NonSuccessTruncates ==
    \A k \in DOMAIN responses :
        responses[k].status_code # 200 =>
            /\ k = Len(responses)
            /\ DiscoveryReturned
            /\ container_names = PageNames(k - 1)
            /\ \A j \in 1 .. k : responses[j].page = j
            /\ pc = "download" \/ download_log # <<>>

C13_Witness ==
    /\ Len(responses) = 2
    /\ responses[2].status_code # 200
    /\ container_names = <<"beta">>
    /\ pc = "done"

Successes == {k \in DOMAIN download_log : download_log[k] = 0}

\* C14: no pull and no scan of any container happens before a database
\* download has succeeded, and a run that pulls or scans has exactly one
\* successful download.
C14_PreparedOnceBeforeScan ==
    (trace # <<>> \/ idx >= 1 \/ files # {} \/ scan_result # NoResult) =>
        Cardinality(Successes) = 1

C14_Witness ==
    /\ Len(download_log) = 3 /\ Successes = {3}
    /\ \E i \in Tasks : Called(i, "scan")

PathOps == {"pull", "build", "upload"}

\* C15 (as claimed): no two tasks of a run use the same staging path,
\* artifact path or destination key, whatever list discovery returned.
C15_PathsUniquePerTask ==
    \A k, l \in DOMAIN trace :
        (trace[k].op \in PathOps /\ trace[k].op = trace[l].op
           /\ trace[k].task # trace[l].task) =>
            trace[k].arg # trace[l].arg

\* C15 (amended): two tasks use the same staging path, artifact path or
\* destination key exactly when their container names are equal.
C15_PathsUniquePerName ==
    \A k, l \in DOMAIN trace :
        (trace[k].op \in PathOps /\ trace[k].op = trace[l].op) =>
            (trace[k].arg = trace[l].arg
               <=> container_names[trace[k].task] = container_names[trace[l].task])

C15_Witness ==
    /\ container_names = <<"alpha", "beta">>
    /\ \A i \in {1, 2} : \A op \in PathOps : Called(i, op)

\* C16: when the process has ended on a cancellation signal, the task that
\* was in flight has had its staging and artifact files deleted.
C16_CancellationCleansUp ==
    pc = "cancelled" => files = {}

\* Calls made for task i, in order
TaskOps(i) ==
    LET OfTask(e) == e.task = i
        evs == SelectSeq(trace, OfTask)
    IN  [k \in DOMAIN evs |-> evs[k].op]

IsPrefix(s, t) == Len(s) <= Len(t) /\ SubSeq(t, 1, Len(s)) = s

SkipPath == <<"pull", "scan", "rm">>
UploadPath == <<"pull", "scan", "build", "upload", "rm">>

\* C17: the steps of every task follow pull, scan, then either cleanup
\* (skipped) or build, upload, cleanup, in that order and without repeats,
\* and once the run has ended every task that was started has been cleaned.
C17_ForwardOnlyEndsCleaned ==
    \A i \in 1 .. idx :
        /\ IsPrefix(TaskOps(i), SkipPath) \/ IsPrefix(TaskOps(i), UploadPath)
        /\ RunEnded => TaskOps(i) \in {SkipPath, UploadPath}

TerminatingPage(k) ==
    responses[k].status_code # 200 \/ responses[k].results = <<>>

\* C18: discovery has stopped exactly when a page that is empty or has a
\* non-success status has been served; that page is the last one requested,
\* so while every page served is a non-empty success the loop goes on.
C18_StopsAtFirstTerminatingPage ==
    /\ DiscoveryReturned <=> \E k \in DOMAIN responses : TerminatingPage(k)
    /\ \A k \in DOMAIN responses : TerminatingPage(k) => k = Len(responses)
    /\ \A k \in DOMAIN responses : responses[k].page = k
    /\ ~DiscoveryReturned => page = Len(responses) + 1

C18_Witness ==
    /\ DiscoveryReturned
    /\ Len(responses) = 3
    /\ ~TerminatingPage(1) /\ ~TerminatingPage(2) /\ TerminatingPage(3)

\* C19: containers are processed one at a time in discovery order: the
\* calls in the log are grouped by task in increasing task order, tasks
\* 1..idx are the ones started and each starts with the pull of the i-th
\* discovered name, and every task but the current one is complete.
C19_SequentialInOrder ==
    /\ \A k, l \in DOMAIN trace : k < l => trace[k].task <= trace[l].task
    /\ \A k \in DOMAIN trace : trace[k].task \in 1 .. idx
    /\ idx <= Len(container_names)
    /\ \A i \in 1 .. idx :
         /\ pc # "pull" \/ i < idx =>
              /\ TaskOps(i) # <<>>
              /\ TaskOps(i)[1] = "pull"
              /\ \A k \in Events(i, "pull") :
                    trace[k].arg = <<"/tmp/", container_names[i], ".tar">>
         /\ i < idx => TaskOps(i) \in {SkipPath, UploadPath}
    /\ pc = "done" => idx = Len(container_names)

C19_Witness ==
    /\ pc = "scan" /\ idx = 2
    /\ container_names = <<"beta", "alpha">>
    /\ TaskOps(1) = UploadPath

Failures == {k \in DOMAIN download_log : download_log[k] # 0}

\* C20: the number of sleeps equals the number of failed downloads, except
\* that the 5th failure is not followed by a sleep: f failures before a
\* success give f sleeps, 5 failures give 4.
C20_SleepsBetweenAttempts ==
    /\ Prepared => sleeps = Len(download_log) - 1
    /\ AllFailed => sleeps = 4
    /\ sleeps = (IF Cardinality(Failures) < 5 THEN Cardinality(Failures) ELSE 4)

C20_Witness ==
    /\ AllFailed /\ sleeps = 4 /\ pc = "crashed"

====
